---- MODULE Spec2Model ----
(***************************************************************************)
(* A model of generate_models_from_json.py: JsonToModelParser, its schema  *)
(* registry (self.models), parse_dict / _get_type (unification and type    *)
(* conflict resolution) and _get_dependencies_order.                       *)
(*                                                                         *)
(* Python strings that the code takes apart (keys, model names, the text   *)
(* of a scalar) are sequences of one-character strings.  Model objects     *)
(* live in a heap and are referred to by their index, because the code     *)
(* tells Model objects apart by identity ("is not") as well as by value.   *)
(***************************************************************************)
EXTENDS Integers, Sequences, FiniteSets, TLC

VARIABLES
    heap,     \* every Model object constructed and kept so far, by object id
    models,   \* self.models: model name -> object id
    raised,   \* an exception (RecursionError) escaped the last operation
    phase,    \* "parsing" until the dependency order is asked for, then "done"
    order,    \* result of _get_dependencies_order(self.models.get(root_name))
    log,      \* history: indices (into Docs) of the documents parsed so far
    obs,      \* history: per call, the <<object id, key, class>> candidates observed
    unified   \* history: model name -> number of objects unified under that name

vars == <<heap, models, raised, phase, order, log, obs, unified>>

\* Number of top-level parse_dict calls explored.
MaxCalls == 3

----------------------------------------------------------------------------
(* Characters and strings                                                  *)

LowerChars == <<"a","b","c","d","e","f","g","h","i","j","k","l","m",
                "n","o","p","q","r","s","t","u","v","w","x","y","z">>
UpperChars == <<"A","B","C","D","E","F","G","H","I","J","K","L","M",
                "N","O","P","Q","R","S","T","U","V","W","X","Y","Z">>
Digits == {"0","1","2","3","4","5","6","7","8","9"}
HexChars == Digits \cup {"a","b","c","d","e","f","A","B","C","D","E","F"}

IsLower(c) == \E i \in 1..26 : LowerChars[i] = c
IsUpper(c) == \E i \in 1..26 : UpperChars[i] = c
IsCased(c) == IsLower(c) \/ IsUpper(c)
Upper(c) == IF IsLower(c) THEN UpperChars[CHOOSE i \in 1..26 : LowerChars[i] = c] ELSE c
Lower(c) == IF IsUpper(c) THEN LowerChars[CHOOSE i \in 1..26 : UpperChars[i] = c] ELSE c

\* str.replace(old, " ") for a one-character old
ReplaceChar(s, old, new) == [i \in 1..Len(s) |-> IF s[i] = old THEN new ELSE s[i]]

\* str.replace(c, "", 1): drop the first occurrence of c
RemoveFirst(s, c) ==
    IF \E i \in 1..Len(s) : s[i] = c
    THEN LET i == CHOOSE j \in 1..Len(s) : s[j] = c /\ \A k \in 1..(j-1) : s[k] # c
         IN  SubSeq(s, 1, i-1) \o SubSeq(s, i+1, Len(s))
    ELSE s

\* str.replace(c, ""): drop every occurrence of c
RemoveAll(s, c) == SelectSeq(s, LAMBDA x : x # c)

\* str.title(): a cased character is upper-cased when it starts a word (no
\* cased character before it) and lower-cased otherwise.
Title(s) ==
    [i \in 1..Len(s) |->
        IF IsCased(s[i])
        THEN IF i = 1 \/ ~IsCased(s[i-1]) THEN Upper(s[i]) ELSE Lower(s[i])
        ELSE s[i]]

\* str.isdigit()
IsDigitStr(s) == Len(s) > 0 /\ \A i \in 1..Len(s) : s[i] \in Digits

\* JsonToModelParser._normalize_key
normalize_key(key) ==
    RemoveAll(Title(ReplaceChar(ReplaceChar(key, "_", " "), "-", " ")), " ")

----------------------------------------------------------------------------
(* JSON values.  A scalar carries its Python type (kind) and str(value).   *)

JStr(text)   == [kind |-> "str",   text |-> text]
JInt(text)   == [kind |-> "int",   text |-> text]
JFloat(text) == [kind |-> "float", text |-> text]
JBool(text)  == [kind |-> "bool",  text |-> text]
JNull       == [kind |-> "NoneType", text |-> <<"N","o","n","e">>]
JDict(items) == [kind |-> "dict",  items |-> items]   \* <<key, value>> pairs, in order
JList(elems) == [kind |-> "list",  elems |-> elems]

IsScalar(v) == v.kind \notin {"dict", "list"}

\* inflect's singular_noun on the plural keys of the sample documents; the
\* empty string stands for its False ("not a plural").
singular_noun(key) ==
    IF key = <<"t","a","g","s">> THEN <<"t","a","g">> ELSE <<>>

\* pydantic.datetime_parse: date_expr is \d{4}-\d{1,2}-\d{1,2}; the samples
\* use the two-digit forms.
IsDateText(s) ==
    /\ Len(s) = 10
    /\ \A i \in {1,2,3,4,6,7,9,10} : s[i] \in Digits
    /\ s[5] = "-" /\ s[8] = "-"

\* datetime_re: date_expr, then "T" or " ", then HH:MM:SS
IsDatetimeText(s) ==
    /\ Len(s) = 19
    /\ IsDateText(SubSeq(s, 1, 10))
    /\ s[11] \in {"T", " "}
    /\ \A i \in {12,13,15,16,18,19} : s[i] \in Digits
    /\ s[14] = ":" /\ s[17] = ":"

\* is_datetime: parse_datetime succeeds and the value is a str (JSON has no
\* datetime values); numbers parse as timestamps but are not str.
is_datetime(v) == v.kind = "str" /\ IsDatetimeText(v.text)

\* is_date
is_date(v) == v.kind = "str" /\ IsDateText(v.text)

\* is_uuid: UUID(value) takes 32 hex digits, hyphens ignored
is_uuid(v) ==
    /\ v.kind = "str"
    /\ LET h == RemoveAll(v.text, "-")
       IN  Len(h) = 32 /\ \A i \in 1..32 : h[i] \in HexChars

----------------------------------------------------------------------------
(* Types: a class, the None of an empty list, or a Model object.           *)

T(cls)     == [cls |-> cls, id |-> 0]
NoneT      == T("None")
TModel(id) == [cls |-> "Model", id |-> id]

TYPE_PREFERENCE_ORDER == <<"str", "bool", "float", "int", "date", "datetime">>

\* _get_type, the branch for a value that is not a dict
Classify(v) ==
    IF v.kind = "list" THEN T("list")
    ELSE IF IsDigitStr(RemoveFirst(RemoveFirst(v.text, "."), "-")) THEN T(v.kind)
    ELSE IF is_datetime(v) THEN T("datetime")
    ELSE IF is_date(v) THEN T("date")
    ELSE IF is_uuid(v) THEN T("UUID")
    ELSE T(v.kind)

----------------------------------------------------------------------------
(* ModelProperty and Model objects                                         *)

\* ModelProperty(type=_type), as the entry of Model.keys under `key`
ModelProperty(key, type) ==
    [key |-> key, number_of_times_seen |-> 0, observed_values |-> {},
     type |-> type, is_list |-> FALSE]

\* Model(name=name); keys is the dict in insertion order
Model(name) == [name |-> name, number_of_times_seen |-> 0, keys |-> <<>>]

\* position of `key` in m.keys, 0 when absent
KeyIndex(m, key) ==
    IF \E i \in 1..Len(m.keys) : m.keys[i].key = key
    THEN CHOOSE i \in 1..Len(m.keys) : m.keys[i].key = key
    ELSE 0

\* _model.number_of_times_seen += 1, without the increment
SeeModelForgotten(m) == m

\* _model.number_of_times_seen += 1
SeeModel(m) == [m EXCEPT !.number_of_times_seen = @ + 1]

\* the property counted once per element of a list value
SeePropertyPerElement(p, value) ==
    IF value.kind = "list"
    THEN [p EXCEPT !.number_of_times_seen = @ + Len(value.elems)]
    ELSE IF value.kind # "NoneType" THEN [p EXCEPT !.number_of_times_seen = @ + 1] ELSE p

\* if value is not None: model_property.number_of_times_seen += 1
SeeProperty(p, value) ==
    IF value.kind # "NoneType" THEN [p EXCEPT !.number_of_times_seen = @ + 1] ELSE p

\* model_property.observed_values.add(value); a dict or a list is unhashable
\* and the TypeError is swallowed
AddObserved(p, value) ==
    IF IsScalar(value) THEN [p EXCEPT !.observed_values = @ \cup {value}] ELSE p

\* the Model objects that the keys of object i refer to
Refs(h, i) ==
    {h[i].keys[k].type.id : k \in {j \in 1..Len(h[i].keys) : h[i].keys[j].type.cls = "Model"}}

RECURSIVE ReachFrom(_, _)
\* closure of a set of objects under Refs
ReachFrom(h, S) ==
    LET next == S \cup UNION {Refs(h, i) : i \in S}
    IN  IF next = S THEN S ELSE ReachFrom(h, next)

\* BaseModel.dict() of object i never returns: the objects it descends into
\* contain a reference cycle (RecursionError)
DictRaises(h, i) ==
    \E j \in ReachFrom(h, {i}) : j \in ReachFrom(h, Refs(h, j))

RECURSIVE DictEq(_, _, _)
\* a.dict() == b.dict() for two Model objects whose dict() returns
DictEq(h, a, b) ==
    LET A == h[a]
        B == h[b]
    IN  /\ A.name = B.name
        /\ A.number_of_times_seen = B.number_of_times_seen
        /\ {A.keys[i].key : i \in 1..Len(A.keys)} = {B.keys[i].key : i \in 1..Len(B.keys)}
        /\ \A i \in 1..Len(A.keys) :
             LET p == A.keys[i]
                 q == B.keys[KeyIndex(B, p.key)]
             IN  /\ p.number_of_times_seen = q.number_of_times_seen
                 /\ p.observed_values = q.observed_values
                 /\ p.is_list = q.is_list
                 /\ p.type.cls = q.type.cls
                 /\ p.type.cls = "Model" => DictEq(h, p.type.id, q.type.id)

\* model_property.type is not _type and model_property.type != _type:
\* "no", "yes", or "raise" when BaseModel.__eq__ calls dict() on a cyclic Model
TypeDiffers(h, old, new) ==
    IF old = new THEN "no"
    ELSE IF \/ old.cls = "Model" /\ DictRaises(h, old.id)
            \/ new.cls = "Model" /\ DictRaises(h, new.id) THEN "raise"
    ELSE IF old.cls = "Model" /\ new.cls = "Model"
         THEN IF DictEq(h, old.id, new.id) THEN "no" ELSE "yes"
    ELSE "yes"

\* TYPE_PREFERENCE_ORDER.index(t), or len(TYPE_PREFERENCE_ORDER) + 1
Preference(t) ==
    IF \E i \in 1..Len(TYPE_PREFERENCE_ORDER) : TYPE_PREFERENCE_ORDER[i] = t.cls
    THEN (CHOOSE i \in 1..Len(TYPE_PREFERENCE_ORDER) : TYPE_PREFERENCE_ORDER[i] = t.cls) - 1
    ELSE Len(TYPE_PREFERENCE_ORDER) + 1

\* the resolution with the comparison turned round
ResolveReversed(old, new) ==
    IF old.cls = "None" THEN new
    ELSE IF new.cls # "None"
         THEN IF Preference(new) >= Preference(old) THEN new ELSE old
    ELSE old

\* the type of the property after a mismatch (the if / elif of the mismatch branch)
Resolve(old, new) ==
    IF old.cls = "None" THEN new
    ELSE IF new.cls # "None"
         THEN IF Preference(new) <= Preference(old) THEN new ELSE old
    ELSE old

\* history: one more object unified under `name`
CountUnified(u, name) ==
    [n \in DOMAIN u \cup {name} |->
        IF n = name THEN (IF name \in DOMAIN u THEN u[name] + 1 ELSE 1) ELSE u[n]]

\* parse_dict, from fetching the property to the end of the loop body: the
\* property is counted, stored in _model.keys and only then compared
MergeProperty(st, id, key, value, is_list, type) ==
    LET m  == st.heap[id]
        i  == KeyIndex(m, key)
        p0 == IF i = 0 THEN ModelProperty(key, type) ELSE m.keys[i]
        p1 == AddObserved([SeeProperty(p0, value) EXCEPT !.is_list = is_list], value)
        stored(p) == IF i = 0 THEN Append(m.keys, p) ELSE [m.keys EXCEPT ![i] = p]
        h1 == [st.heap EXCEPT ![id].keys = stored(p1)]
        differs == TypeDiffers(h1, p1.type, type)
        p2 == IF differs = "yes" THEN [p1 EXCEPT !.type = Resolve(p1.type, type)] ELSE p1
    IN  [st EXCEPT !.heap = [h1 EXCEPT ![id].keys = stored(p2)],
                   !.raised = (differs = "raise"),
                   !.obs = @ \cup {<<id, key, type.cls>>}]

RECURSIVE parse_dict(_, _, _)
RECURSIVE get_type(_, _, _)
RECURSIVE ListType(_, _, _, _, _)
RECURSIVE ParseItems(_, _, _, _, _)

\* JsonToModelParser._get_type: the Model object of a dict, the class of anything else
get_type(st, name, value) ==
    IF value.kind = "dict"
    THEN LET r == parse_dict(st, value, name)
         IN  [st |-> r.st, type |-> TModel(r.ret)]
    ELSE [st |-> st, type |-> Classify(value)]

\* for _value in value: _type = self._get_type(name + singular_key, _value);
\* the type of the last element is the one that stays
ListType(st, name, elems, i, type) ==
    IF st.raised \/ i > Len(elems) THEN [st |-> st, type |-> type]
    ELSE LET r == get_type(st, name, elems[i])
         IN  ListType(r.st, name, elems, i + 1, r.type)

\* for key, value in model_dict.items(): ..., from item i on; `id` is _model
ParseItems(st, items, i, name, id) ==
    IF st.raised \/ i > Len(items) THEN st
    ELSE LET key     == items[i][1]
             value   == items[i][2]
             is_list == value.kind = "list"
             singular_key == IF singular_noun(key) # <<>> THEN singular_noun(key) ELSE key
             r == IF is_list
                  THEN IF Len(value.elems) > 0
                       THEN ListType(st, name \o normalize_key(singular_key), value.elems, 1, NoneT)
                       ELSE [st |-> st, type |-> NoneT]
                  ELSE get_type(st, name \o normalize_key(key), value)
         IN  IF r.st.raised THEN r.st
             ELSE ParseItems(MergeProperty(r.st, id, key, value, is_list, r.type),
                             items, i + 1, name, id)

\* JsonToModelParser.parse_dict: _model is the registered object of that name
\* or a new one, which is registered only after the loop
parse_dict(st, model_dict, name) ==
    LET known == name \in DOMAIN st.models
        id    == IF known THEN st.models[name] ELSE Len(st.heap) + 1
        h0    == IF known THEN st.heap ELSE Append(st.heap, Model(name))
        st1   == [st EXCEPT !.heap = [h0 EXCEPT ![id] = SeeModel(@)],
                            !.unified = CountUnified(@, name)]
        st2   == ParseItems(st1, model_dict.items, 1, name, id)
    IN  IF st2.raised THEN [st |-> st2, ret |-> id]
        ELSE [st |-> [st2 EXCEPT !.models =
                         [n \in DOMAIN @ \cup {name} |-> IF n = name THEN id ELSE @[n]]],
              ret |-> id]

----------------------------------------------------------------------------
(* _get_dependencies_order                                                 *)

\* the registered objects that _get_dependencies_order recurses into from
\* object i: self.models.get(property.type.name)
Callees(h, reg, i) == {reg[h[r].name] : r \in Refs(h, i)}

RECURSIVE CalledFrom(_, _, _)
\* closure of a set of objects under Callees
CalledFrom(h, reg, S) ==
    LET next == S \cup UNION {Callees(h, reg, i) : i \in S}
    IN  IF next = S THEN S ELSE CalledFrom(h, reg, next)

\* _get_dependencies_order(object id) recurses without end (RecursionError)
OrderRaises(h, reg, id) ==
    \E j \in CalledFrom(h, reg, {id}) : j \in CalledFrom(h, reg, Callees(h, reg, j))

RECURSIVE PreOrderFrom(_, _, _, _)
\* the order with dependencies.append(model.name) before the loop
GetDependenciesPreOrder(h, reg, id) == PreOrderFrom(h, reg, id, 0)

PreOrderFrom(h, reg, id, i) ==
    IF i = 0 THEN <<h[id].name>> \o PreOrderFrom(h, reg, id, 1)
    ELSE IF i > Len(h[id].keys) THEN <<>>
    ELSE (IF h[id].keys[i].type.cls = "Model"
          THEN PreOrderFrom(h, reg, reg[h[h[id].keys[i].type.id].name], 0)
          ELSE <<>>) \o PreOrderFrom(h, reg, id, i + 1)

RECURSIVE get_dependencies_order(_, _, _)
RECURSIVE DependenciesFrom(_, _, _, _)

\* the loop of _get_dependencies_order, from key i of object id on
DependenciesFrom(h, reg, id, i) ==
    IF i > Len(h[id].keys) THEN <<>>
    ELSE (IF h[id].keys[i].type.cls = "Model"
          THEN get_dependencies_order(h, reg, reg[h[h[id].keys[i].type.id].name])
          ELSE <<>>) \o DependenciesFrom(h, reg, id, i + 1)

\* JsonToModelParser._get_dependencies_order, for a model it returns on
get_dependencies_order(h, reg, id) ==
    DependenciesFrom(h, reg, id, 1) \o <<h[id].name>>

----------------------------------------------------------------------------
(* Sample documents                                                        *)

root_name == <<"R","o","o","t">>

Kx == <<"x">>
Ky == <<"y">>
Kz == <<"z">>
Kw == <<"w">>
Kv == <<"v">>
Ku == <<"u">>
Ka == <<"a">>
Kb == <<"b">>
Kc == <<"c">>
Kk == <<"k">>
Ka_b == <<"a","_","b">>
Kunderscore == <<"_">>
Ktags == <<"t","a","g","s">>
Ktag == <<"t","a","g">>
Kaddress == <<"a","d","d","r","e","s","s">>
Kcity == <<"c","i","t","y">>

Five     == <<"5">>
NYC      == <<"N","Y","C">>
ADate    == <<"2","0","2","0","-","0","1","-","0","2">>
ADatetime == ADate \o <<"T","0","3",":","0","4",":","0","5">>
AUuid    == [i \in 1..32 |-> "a"]

Docs == <<
    \* 1: {"u": "aaaaaaaaaaaaaaaaaaaaaaaaaaaaaaaa"}
    JDict(<< <<Ku, JStr(AUuid)>> >>),
    \* 2: {"u": null, "tags": null}
    JDict(<< <<Ku, JNull>>, <<Ktags, JNull>> >>),
    \* 3: {"x": "5", "y": 5.5, "z": "2020-01-02", "w": "2020-01-02T03:04:05", "v": false}
    JDict(<< <<Kx, JStr(Five)>>, <<Ky, JFloat(<<"5",".","5">>)>>, <<Kz, JStr(ADate)>>,
             <<Kw, JStr(ADatetime)>>, <<Kv, JBool(<<"F","a","l","s","e">>)>> >>),
    \* 4: {"x": 5, "y": "-5.5", "z": "NYC", "w": "NYC", "v": "NYC"}
    JDict(<< <<Kx, JInt(Five)>>, <<Ky, JStr(<<"-","5",".","5">>)>>, <<Kz, JStr(NYC)>>,
             <<Kw, JStr(NYC)>>, <<Kv, JStr(NYC)>> >>),
    \* 5: {"a": {"b": {"c": 1}}}
    JDict(<< <<Ka, JDict(<< <<Kb, JDict(<< <<Kc, JInt(<<"1">>)>> >>)>> >>)>> >>),
    \* 6: {"a_b": {"c": "NYC"}, "a": null}
    JDict(<< <<Ka_b, JDict(<< <<Kc, JStr(NYC)>> >>)>>, <<Ka, JNull>> >>),
    \* 7: {"address": {"city": "NYC"}}
    JDict(<< <<Kaddress, JDict(<< <<Kcity, JStr(NYC)>> >>)>> >>),
    \* 8: {"tags": ["a", "b"]}
    JDict(<< <<Ktags, JList(<< JStr(<<"a">>), JStr(<<"b">>) >>)>> >>),
    \* 9: {"tags": "NYC", "a": "NYC"}
    JDict(<< <<Ktags, JStr(NYC)>>, <<Ka, JStr(NYC)>> >>),
    \* 10: {"tags": [{"k": 1}, {"k": 5}], "tag": {"k": "NYC"}}
    JDict(<< <<Ktags, JList(<< JDict(<< <<Kk, JInt(<<"1">>)>> >>),
                               JDict(<< <<Kk, JInt(Five)>> >>) >>)>>,
             <<Ktag, JDict(<< <<Kk, JStr(NYC)>> >>)>> >>),
    \* 11: {"_": {"_": 1}}
    JDict(<< <<Kunderscore, JDict(<< <<Kunderscore, JInt(<<"1">>)>> >>)>> >>),
    \* 12: {"_": {"x": "5"}}
    JDict(<< <<Kunderscore, JDict(<< <<Kx, JStr(Five)>> >>)>> >>),
    \* 13: {"tags": []}
    JDict(<< <<Ktags, JList(<< >>)>> >>)
>>

----------------------------------------------------------------------------
(* The parser as a state machine                                           *)

\* JsonToModelParser.__init__
Init ==
    /\ heap = <<>>
    /\ models = [n \in {} |-> 0]
    /\ raised = FALSE
    /\ phase = "parsing"
    /\ order = <<>>
    /\ log = <<>>
    /\ obs = <<>>
    /\ unified = [n \in {} |-> 0]

\* parser.parse_dict(Docs[d]): one top-level call, nested calls included
ParseDict(d) ==
    /\ phase = "parsing"
    /\ ~raised
    /\ Len(log) < MaxCalls
    /\ LET st0 == [heap |-> heap, models |-> models, raised |-> FALSE,
                   obs |-> {}, unified |-> unified]
           st1 == parse_dict(st0, Docs[d], root_name).st
       IN  /\ heap' = st1.heap
           /\ models' = st1.models
           /\ raised' = st1.raised
           /\ obs' = Append(obs, st1.obs)
           /\ unified' = st1.unified
    /\ log' = Append(log, d)
    /\ UNCHANGED <<phase, order>>

\* self._get_dependencies_order(self.models.get(self.root_name)), as
\* generate_models and output_models_to_package start with
GetDependenciesOrder ==
    /\ phase = "parsing"
    /\ ~raised
    /\ root_name \in DOMAIN models
    /\ phase' = "done"
    /\ IF OrderRaises(heap, models, models[root_name])
       THEN raised' = TRUE /\ order' = <<>>
       ELSE raised' = FALSE
            /\ order' = get_dependencies_order(heap, models, models[root_name])
    /\ UNCHANGED <<heap, models, log, obs, unified>>

Next ==
    \/ \E d \in 1..Len(Docs) : ParseDict(d)
    \/ GetDependenciesOrder

Spec == Init /\ [][Next]_vars

----------------------------------------------------------------------------
(* Reading the registry                                                    *)

\* the Model registered under name n
Entry(n) == heap[models[n]]

\* output_models_to_package: optional unless the key was seen as often as its model
Optional(m, p) == p.number_of_times_seen # m.number_of_times_seen

\* a type as it is emitted: the class name, or the name of the Model
TypeName(h, t) == IF t.cls = "Model" THEN <<"Model", h[t.id].name>> ELSE <<t.cls, <<>>>>

\* a fresh parser
Fresh == [heap |-> <<>>, models |-> [n \in {} |-> 0], raised |-> FALSE,
          obs |-> {}, unified |-> [n \in {} |-> 0]]

RECURSIVE Replay(_, _, _)
\* parse_dict on the documents ds[i], ds[i+1], ... in turn
Replay(st, ds, i) ==
    IF st.raised \/ i > Len(ds) THEN st
    ELSE Replay(parse_dict(st, Docs[ds[i]], root_name).st, ds, i + 1)

\* per model name and key: the resolved type and the optional flag
Summary(st) ==
    UNION {{<<n, st.heap[st.models[n]].keys[i].key,
              TypeName(st.heap, st.heap[st.models[n]].keys[i].type),
              Optional(st.heap[st.models[n]], st.heap[st.models[n]].keys[i])>> :
                i \in 1..Len(st.heap[st.models[n]].keys)} : n \in DOMAIN st.models}

Orders(n) == {f \in [1..n -> 1..n] : \A i, j \in 1..n : f[i] = f[j] => i = j}

\* every candidate class observed so far for `key` on Model object `id`
Seen(id, key) ==
    {o[3] : o \in {x \in UNION {obs[c] : c \in 1..Len(obs)} : x[1] = id /\ x[2] = key}}

\* the candidate classes observed for `key` on object `id` by the call that ends in o
SeenBy(o, id, key) == {x[3] : x \in {y \in o : y[1] = id /\ y[2] = key}}

PreferenceClasses == {TYPE_PREFERENCE_ORDER[i] : i \in 1..Len(TYPE_PREFERENCE_ORDER)}

RootA  == root_name \o <<"A">>
RootAB == root_name \o <<"A", "B">>
RootAddress == root_name \o <<"A","d","d","r","e","s","s">>

----------------------------------------------------------------------------
(* Claims                                                                  *)

\* C1: the same document parsed N times on a fresh parser leaves every
\* ModelProperty.type as the first call left it and every key that one copy
\* counts once at number_of_times_seen = N.
C1_Idempotence ==
    (/\ phase = "parsing" /\ ~raised /\ Len(log) >= 1
     /\ \A i \in 1..Len(log) : log[i] = log[1]) =>
        LET f == Replay(Fresh, <<log[1]>>, 1)
        IN  \A n \in DOMAIN models : \A i \in 1..Len(Entry(n).keys) :
              LET p  == Entry(n).keys[i]
                  fm == f.heap[f.models[n]]
                  j  == KeyIndex(fm, p.key)
              IN  /\ j # 0
                  /\ TypeName(f.heap, fm.keys[j].type) = TypeName(heap, p.type)
                  /\ fm.keys[j].number_of_times_seen = 1 =>
                        p.number_of_times_seen = Len(log)

\* C2: whatever the order in which the documents parsed so far are
\* processed, every key of every model ends with the same resolved type and
\* the same optional flag.
C2_OrderIndependence ==
    (phase = "parsing" /\ ~raised) =>
        \A f \in Orders(Len(log)) :
            LET st == Replay(Fresh, [i \in 1..Len(log) |-> log[f[i]]], 1)
            IN  ~st.raised /\ Summary(st) = Summary([heap |-> heap, models |-> models])

\* C3: a key of a Model that has been observed as a string and otherwise
\* only as classes of the preference list is resolved to str, in whichever
\* order the observations came.
C3_StringWins ==
    \A id \in 1..Len(heap) : \A i \in 1..Len(heap[id].keys) :
        LET p == heap[id].keys[i]
        IN  ("str" \in Seen(id, p.key) /\ Seen(id, p.key) \subseteq PreferenceClasses)
                => p.type = T("str")

\* C3 witness: document 4 ({"x": 5, "y": "-5.5", ...}) then document 3: int,
\* float, date, datetime and bool each met a str, and every key is str
C3_Witness ==
    /\ log = <<4, 3>>
    /\ \A i \in 1..Len(Entry(root_name).keys) : Entry(root_name).keys[i].type = T("str")
    /\ \A c \in PreferenceClasses \ {"str"} :
          \E i \in 1..Len(Entry(root_name).keys) :
              Seen(models[root_name], Entry(root_name).keys[i].key) = {"str", c}

\* C4: no key of a registered Model has been seen more often than the Model.
C4_SeenAtMostModel ==
    \A n \in DOMAIN models : \A i \in 1..Len(Entry(n).keys) :
        Entry(n).keys[i].number_of_times_seen <= Entry(n).number_of_times_seen

\* C4 witness: a Model seen three times with a key seen every time and a
\* key seen less often
C4_Witness ==
    \E n \in DOMAIN models :
        /\ Entry(n).number_of_times_seen = 3
        /\ \E i, j \in 1..Len(Entry(n).keys) :
              /\ Entry(n).keys[i].number_of_times_seen = 3
              /\ Entry(n).keys[j].number_of_times_seen \in 1..2

\* C5: a key that is optional (seen less often than its Model, which is when
\* output_models_to_package emits Optional) is still optional after any
\* further call.
C5_OptionalStays ==
    [][\A n \in DOMAIN models : \A i \in 1..Len(Entry(n).keys) :
          LET m == Entry(n)
              p == m.keys[i]
          IN  (p.number_of_times_seen < m.number_of_times_seen \/ Optional(m, p)) =>
                /\ n \in DOMAIN models'
                /\ LET m2 == heap'[models'[n]]
                       j  == KeyIndex(m2, p.key)
                   IN  /\ j # 0
                       /\ m2.keys[j].number_of_times_seen < m2.number_of_times_seen
                       /\ Optional(m2, m2.keys[j])]_vars

\* C5 witness: a key of the root Model seen by the first call, left out by
\* the second (optional from then on) and seen again by the third
C5_Witness ==
    /\ phase = "parsing" /\ Len(obs) = 3 /\ unified[root_name] = 3
    /\ \E i \in 1..Len(Entry(root_name).keys) :
          LET p == Entry(root_name).keys[i]
          IN  /\ Optional(Entry(root_name), p)
              /\ p.number_of_times_seen = 2
              /\ SeenBy(obs[1], models[root_name], p.key) \ {"NoneType"} # {}
              /\ SeenBy(obs[2], models[root_name], p.key) = {}
              /\ SeenBy(obs[3], models[root_name], p.key) \ {"NoneType"} # {}

\* the first position of name n in sequence s
FirstPos(s, n) == CHOOSE i \in 1..Len(s) : s[i] = n /\ \A j \in 1..(i-1) : s[j] # n

\* C6: in the dependency order every Model referenced by a key of M comes
\* before the first occurrence of M, the root comes last, and
\* {"a": {"b": {"c": 1}}} alone gives RootAB, RootA, Root.
C6_DependencyOrder ==
    (phase = "done" /\ ~raised) =>
        /\ Len(order) >= 1 /\ order[Len(order)] = root_name
        /\ \A i \in 1..Len(order) :
              /\ order[i] \in DOMAIN models
              /\ \A r \in Refs(heap, models[order[i]]) :
                    \E j \in 1..(FirstPos(order, order[i]) - 1) : order[j] = heap[r].name
        /\ log = <<5>> => order = <<RootAB, RootA, root_name>>

\* C6 witness: the order computed for {"a": {"b": {"c": 1}}}
C6_Witness ==
    phase = "done" /\ ~raised /\ log = <<5>> /\ order = <<RootAB, RootA, root_name>>

\* C7: a key that holds an object registers one nested Model under the name
\* owner name + normalized key, and every registered Model has been seen as
\* often as objects were unified under its name; {"address": {"city":
\* "NYC"}} twice gives exactly Root and RootAddress, RootAddress seen twice,
\* city a str seen twice.
C7_NestedNaming ==
    (phase = "parsing" /\ ~raised) =>
        /\ \A c \in 1..Len(log) : \A i \in 1..Len(Docs[log[c]].items) :
              Docs[log[c]].items[i][2].kind = "dict" =>
                  root_name \o normalize_key(Docs[log[c]].items[i][1]) \in DOMAIN models
        /\ \A n \in DOMAIN models : Entry(n).number_of_times_seen = unified[n]
        /\ log = <<7, 7>> =>
              /\ DOMAIN models = {root_name, RootAddress}
              /\ Entry(RootAddress).number_of_times_seen = 2
              /\ Len(Entry(RootAddress).keys) = 1
              /\ Entry(RootAddress).keys[1].key = Kcity
              /\ Entry(RootAddress).keys[1].type = T("str")
              /\ Entry(RootAddress).keys[1].number_of_times_seen = 2

ScalarClasses == {"str", "bool", "float", "int", "date", "datetime", "UUID", "NoneType"}

\* C8: a key whose type is a Model reference keeps that reference through a
\* call that observes the key with scalar values only.
C8_ModelTypeKept ==
    [][\A n \in DOMAIN models : \A i \in 1..Len(Entry(n).keys) :
          LET p == Entry(n).keys[i]
              seen == SeenBy(obs'[Len(obs')], models[n], p.key)
          IN  (/\ p.type.cls = "Model"
               /\ log' # log
               /\ seen # {} /\ seen \subseteq ScalarClasses) =>
                  /\ ~raised'
                  /\ heap'[models[n]].keys[i].type = p.type]_vars

\* C9: a key that is_list stays is_list through every later call.
C9_IsListKept ==
    [][\A n \in DOMAIN models : \A i \in 1..Len(Entry(n).keys) :
          Entry(n).keys[i].is_list => heap'[models[n]].keys[i].is_list]_vars

\* C10: the references between registered models that can be reached from
\* the root never form a cycle, so _get_dependencies_order(root) returns.
C10_OrderTerminates ==
    /\ (phase = "parsing" /\ ~raised /\ root_name \in DOMAIN models) =>
          ~OrderRaises(heap, models, models[root_name])
    /\ phase = "done" => ~raised

====
